---- MODULE Spec2Model ----
(***************************************************************************)
(* QMC5883L three-axis magnetometer driver, drivers/i2c/qmc5883l_driver.go, *)
(* as a state machine: construction with options, the initialization write *)
(* sequence, and the filtered acquisition (Read / Heading) under the       *)
(* driver's mutex.                                                         *)
(*                                                                         *)
(* Floating point values are modelled as exact rationals <<num, den>>;     *)
(* an angle is modelled by the 45-degree sector it lies in.                *)
(***************************************************************************)
EXTENDS Integers, Sequences, FiniteSets, TLC

\* ------------------------------------------------------------------------
\* Bounds of the model
\* ------------------------------------------------------------------------

\* most options handed to one NewQMC5883LDriver call
MaxOptions == 3

\* ------------------------------------------------------------------------
\* Register map and bit patterns (const block)
\* ------------------------------------------------------------------------

qmc5883lRegX == 0
qmc5883lRegCtrl1 == 9
qmc5883lRegCtrl2 == 10

qmc5883lCtrl1_Mode_Standby == 0
qmc5883lCtrl1_Mode_Continuous == 1
qmc5883lCtrl1_ODR_10Hz == 0
qmc5883lCtrl1_ODR_50Hz == 4
qmc5883lCtrl1_ODR_100Hz == 8
qmc5883lCtrl1_ODR_200Hz == 12
qmc5883lCtrl1_RNG_2G == 0
qmc5883lCtrl1_RNG_8G == 16
qmc5883lCtrl1_OSR_512 == 0
qmc5883lCtrl1_OSR_256 == 64
qmc5883lCtrl1_OSR_128 == 128
qmc5883lCtrl1_OSR_64 == 192

qmc5883lCtrl2_SOFT_RST == 128
qmc5883lCtrl2_ROL_PNT == 64

\* number of raw readings averaged by Read
numReadings == 10

\* length of the block that readRawData reads: make([]byte, 6)
rawDataLen == 6

\* counts per Gauss
scale2G == 12000
scale8G == 3000

\* ------------------------------------------------------------------------
\* Lookup tables
\* ------------------------------------------------------------------------

\* variant: the patterns of 50 Hz and 100 Hz exchanged
ODRBitsExchanged ==
    (10 :> qmc5883lCtrl1_ODR_10Hz) @@ (50 :> qmc5883lCtrl1_ODR_100Hz) @@
    (100 :> qmc5883lCtrl1_ODR_50Hz) @@ (200 :> qmc5883lCtrl1_ODR_200Hz)

qmc5883lODRBits ==
    (10 :> qmc5883lCtrl1_ODR_10Hz) @@ (50 :> qmc5883lCtrl1_ODR_50Hz) @@
    (100 :> qmc5883lCtrl1_ODR_100Hz) @@ (200 :> qmc5883lCtrl1_ODR_200Hz)

qmc5883lRNGBits ==
    (2 :> qmc5883lCtrl1_RNG_2G) @@ (8 :> qmc5883lCtrl1_RNG_8G)

qmc5883lOSRBits ==
    (512 :> qmc5883lCtrl1_OSR_512) @@ (256 :> qmc5883lCtrl1_OSR_256) @@
    (128 :> qmc5883lCtrl1_OSR_128) @@ (64 :> qmc5883lCtrl1_OSR_64)

\* m[k] of a Go map: the zero value when the key is missing
MapGet(m, k) == IF k \in DOMAIN m THEN m[k] ELSE 0

\* ------------------------------------------------------------------------
\* Machine arithmetic
\* ------------------------------------------------------------------------

RECURSIVE BitOr(_, _)
\* a | b on unsigned integers
BitOr(a, b) ==
    IF a = 0 THEN b
    ELSE IF b = 0 THEN a
    ELSE (IF a % 2 = 1 \/ b % 2 = 1 THEN 1 ELSE 0) + 2 * BitOr(a \div 2, b \div 2)

\* uint8(v)
ToUint8(v) == v % 256

\* uint16(v)
ToUint16(v) == v % 65536

\* int16(u) of an unsigned 16-bit value: two's complement
ToInt16(u) == IF ToUint16(u) >= 32768 THEN ToUint16(u) - 65536 ELSE ToUint16(u)

\* largest int32
MaxInt32 == 2147483647

\* variant: the accumulator is as narrow as a sample (int16)
AddInt16(a, b) == ToInt16(a + b)

\* a += b on int32: two's complement wrap-around
AddInt32(a, b) ==
    IF b > 0 /\ a > MaxInt32 - b
    THEN (a - MaxInt32 - 1) + (b - MaxInt32 - 1)
    ELSE IF b < 0 /\ a < (-MaxInt32 - 1) - b
    THEN (a + MaxInt32 + 1) + (b + MaxInt32 + 1)
    ELSE a + b

\* ------------------------------------------------------------------------
\* Validation (qmc5883lValidateODR / RNG / OSR)
\* ------------------------------------------------------------------------

\* error values: nil, a bus error, and (below) the validation errors
NoErr == [msg |-> "nil", keys |-> << >>]
BusErr == [msg |-> "bus error", keys |-> << >>]
\* no call has returned yet
NoCall == [msg |-> "none", keys |-> << >>]

\* the orders in which a range loop may visit the keys of a map
KeyOrders(tbl) ==
    LET n == Cardinality(DOMAIN tbl)
    IN  {ks \in [1..n -> DOMAIN tbl] : \A a, b \in 1..n : a # b => ks[a] # ks[b]}

RECURSIVE InsertSorted(_, _)
\* v put into an ascending sequence
InsertSorted(sorted, v) ==
    IF sorted = << >> THEN << v >>
    ELSE IF v <= Head(sorted) THEN << v >> \o sorted
    ELSE << Head(sorted) >> \o InsertSorted(Tail(sorted), v)

RECURSIVE SortFrom(_, _)
SortFrom(sorted, rest) ==
    IF rest = << >> THEN sorted
    ELSE SortFrom(InsertSorted(sorted, Head(rest)), Tail(rest))

\* variant: the keys are left in the order of the iteration
SortIntsOmitted(keys) == keys

\* sort.Ints(keys)
SortInts(keys) == SortFrom(<< >>, keys)

\* fmt.Errorf("... must be one of: %v", keys), keys sorted before
ValidateErr(what, keys) == [msg |-> what, keys |-> SortInts(keys)]

\* variant: every candidate is accepted
ValidateODRAcceptsAll(odr, keys) == NoErr

\* keys: the keys of the table as the range loop appended them
qmc5883lValidateODR(odr, keys) ==
    IF odr \in DOMAIN qmc5883lODRBits THEN NoErr
    ELSE ValidateErr("ODR must be one of", keys)

qmc5883lValidateRNG(r, keys) ==
    IF r \in DOMAIN qmc5883lRNGBits THEN NoErr
    ELSE ValidateErr("RNG must be one of", keys)

qmc5883lValidateOSR(o, keys) ==
    IF o \in DOMAIN qmc5883lOSRBits THEN NoErr
    ELSE ValidateErr("OSR must be one of", keys)

\* candidate option values handed to the setters: legal and illegal ones
ODRCandidates == {0, 10, 50, 64, 100, 200, 255}
RNGCandidates == {0, 2, 4, 8, 16}
OSRCandidates == {0, 64, 100, 128, 256, 512, 1024}

\* ------------------------------------------------------------------------
\* State
\* ------------------------------------------------------------------------

VARIABLES
    phase,      \* NewQMC5883LDriver: "constructing", "constructed", "panicked"
    panicVal,   \* the error an option setter panicked with (nil if none did)
    applied,    \* history: per option the last legal value it was given
    nopts,      \* options of the call applied so far
    odr,        \* QMC5883LDriver.odr
    rng,        \* QMC5883LDriver.rng
    osr,        \* QMC5883LDriver.osr (the bit pattern)
    mode,       \* QMC5883LDriver.mode
    initPc,     \* position in initialize: "idle", "reset", "ctrl1", "ctrl2"
    initErr,    \* what the last finished initialize returned ("none" before)
    initLog,    \* bus operations issued by the current / last initialize
    mutex,      \* q.mutex: the thread that holds it, or NoThread
    pc,         \* per caller: "idle", "lock", "loop", "done"
    kind,       \* per caller: the method called, "Read" or "Heading"
    i,          \* per caller: loop counter of Read
    sumX,       \* per caller: accumulators of Read (int32)
    sumY,
    sumZ,
    cnt,        \* per caller: how often each sample block was read in this call
    busLog,     \* per caller: bus operations issued by this call
    res,        \* per caller: what the call returned
    mid         \* per caller in the loop of Read: 1 once initialize has written
                \* after a raw read of this call, 2 once the call has read
                \* a further block after that write; 0 otherwise

cfgVars == << phase, panicVal, applied, nopts, odr, rng, osr, mode >>
initVars == << initPc, initErr, initLog >>
acqVars == << mutex, pc, kind, i, sumX, sumY, sumZ, cnt, busLog, res >>
vars == << phase, panicVal, applied, nopts, odr, rng, osr, mode, initPc, initErr, initLog,
           mutex, pc, kind, i, sumX, sumY, sumZ, cnt, busLog, res, mid >>

Threads == {"t1", "t2"}
NoThread == "none"

\* the 6-byte blocks the sensor answers a block read with
\* (x, y, z) = (12000, -32768, 32767), (-32768, 32767, -200), (1, 0, 0),
\* (0, 1, 0), (-1, 0, 0), (0, -1, 0)
Blocks ==
    << << 46, 224, 128, 0, 127, 255 >>,
       << 128, 0, 127, 255, 255, 56 >>,
       << 0, 1, 0, 0, 0, 0 >>,
       << 0, 0, 0, 1, 0, 0 >>,
       << 255, 255, 0, 0, 0, 0 >>,
       << 0, 0, 255, 255, 0, 0 >> >>

NoRes == [x |-> << 0, 1 >>, y |-> << 0, 1 >>, z |-> << 0, 1 >>,
          err |-> NoCall, heading |-> << 0, 0 >>]

ZeroCnt == [b \in DOMAIN Blocks |-> 0]

\* ------------------------------------------------------------------------
\* Construction: NewQMC5883LDriver and the option setters
\* ------------------------------------------------------------------------

Init ==
    /\ phase = "constructing"
    /\ panicVal = NoErr
    /\ applied = [ODR |-> 50, RNG |-> 2, OSR |-> 512]
    /\ nopts = 0
    /\ odr = 50
    /\ rng = 2
    /\ osr = qmc5883lOSRBits[512]
    /\ mode = qmc5883lCtrl1_Mode_Continuous
    /\ initPc = "idle"
    /\ initErr = NoCall
    /\ initLog = << >>
    /\ mutex = NoThread
    /\ pc = [t \in Threads |-> "idle"]
    /\ kind = [t \in Threads |-> "none"]
    /\ i = [t \in Threads |-> 0]
    /\ sumX = [t \in Threads |-> 0]
    /\ sumY = [t \in Threads |-> 0]
    /\ sumZ = [t \in Threads |-> 0]
    /\ cnt = [t \in Threads |-> ZeroCnt]
    /\ busLog = [t \in Threads |-> << >>]
    /\ res = [t \in Threads |-> NoRes]
    /\ mid = [t \in Threads |-> 0]

\* variant: the setter assigns before it validates
FieldOnPanicAssigned(old, val) == val

\* panic(err) comes before the assignment: the field keeps its value
FieldOnPanic(old, val) == old

\* option(q) for WithQMC5883LODR(val)
WithQMC5883LODR(val, keys) ==
    /\ phase = "constructing"
    /\ nopts < MaxOptions
    /\ nopts' = nopts + 1
    /\ panicVal' = qmc5883lValidateODR(val, keys)
    /\ IF qmc5883lValidateODR(val, keys) # NoErr
       THEN /\ phase' = "panicked"
            /\ applied' = applied
            /\ odr' = FieldOnPanic(odr, val)
       ELSE /\ phase' = phase
            /\ applied' = [applied EXCEPT !.ODR = val]
            /\ odr' = val
    /\ UNCHANGED << rng, osr, mode >>
    /\ UNCHANGED initVars
    /\ UNCHANGED acqVars
    /\ UNCHANGED mid

\* option(q) for WithQMC5883LRNG(val)
WithQMC5883LRNG(val, keys) ==
    /\ phase = "constructing"
    /\ nopts < MaxOptions
    /\ nopts' = nopts + 1
    /\ panicVal' = qmc5883lValidateRNG(val, keys)
    /\ IF qmc5883lValidateRNG(val, keys) # NoErr
       THEN /\ phase' = "panicked"
            /\ applied' = applied
            /\ rng' = FieldOnPanic(rng, val)
       ELSE /\ phase' = phase
            /\ applied' = [applied EXCEPT !.RNG = val]
            /\ rng' = val
    /\ UNCHANGED << odr, osr, mode >>
    /\ UNCHANGED initVars
    /\ UNCHANGED acqVars
    /\ UNCHANGED mid

\* variant: the ratio itself is stored, narrowed to the width of the field
StoredOSRRaw(val) == ToUint8(val)

\* d.osr = qmc5883lOSRBits[val]
StoredOSR(val) == MapGet(qmc5883lOSRBits, val)

\* option(q) for WithQMC5883LOSR(val)
WithQMC5883LOSR(val, keys) ==
    /\ phase = "constructing"
    /\ nopts < MaxOptions
    /\ nopts' = nopts + 1
    /\ panicVal' = qmc5883lValidateOSR(val, keys)
    /\ IF qmc5883lValidateOSR(val, keys) # NoErr
       THEN /\ phase' = "panicked"
            /\ applied' = applied
            /\ osr' = FieldOnPanic(osr, StoredOSR(val))
       ELSE /\ phase' = phase
            /\ applied' = [applied EXCEPT !.OSR = val]
            /\ osr' = StoredOSR(val)
    /\ UNCHANGED << odr, rng, mode >>
    /\ UNCHANGED initVars
    /\ UNCHANGED acqVars
    /\ UNCHANGED mid

\* return q: the option list is exhausted
NewQMC5883LDriver ==
    /\ phase = "constructing"
    /\ phase' = "constructed"
    /\ panicVal' = panicVal
    /\ applied' = applied
    /\ nopts' = 0
    /\ UNCHANGED << odr, rng, osr, mode >>
    /\ UNCHANGED initVars
    /\ UNCHANGED acqVars
    /\ UNCHANGED mid

\* ------------------------------------------------------------------------
\* initialize, run by the afterStart hook
\* ------------------------------------------------------------------------

WriteOp(reg, val, err) == [op |-> "write", reg |-> reg, arg |-> val, err |-> err]
ReadOp(reg, len, err) == [op |-> "read", reg |-> reg, arg |-> len, err |-> err]

\* variant: the range bits are left out of the byte
Ctrl1ValueNoRange(m, o, r, s) ==
    ToUint8(BitOr(BitOr(m, MapGet(qmc5883lODRBits, o)), s))

\* variant: the mode bits are left out of the byte
Ctrl1ValueNoMode(m, o, r, s) ==
    ToUint8(BitOr(BitOr(MapGet(qmc5883lODRBits, o), MapGet(qmc5883lRNGBits, r)), s))

\* ctrl1 := q.mode | qmc5883lODRBits[q.odr] | qmc5883lRNGBits[q.rng] | q.osr
Ctrl1Value(m, o, r, s) ==
    ToUint8(BitOr(BitOr(BitOr(m, MapGet(qmc5883lODRBits, o)),
                        MapGet(qmc5883lRNGBits, r)), s))

\* variant: the interrupt-enable bit (0x01) set along with roll-over
Ctrl2ValueWithIntEnb == ToUint8(BitOr(qmc5883lCtrl2_ROL_PNT, 1))

\* ctrl2 := uint8(qmc5883lCtrl2_ROL_PNT)
Ctrl2Value == ToUint8(qmc5883lCtrl2_ROL_PNT)

\* variant: the error of a write is ignored
InitAbortsNever(err) == FALSE

\* if err != nil { return err }
InitAborts(err) == err # NoErr

\* variant: initialize waits for q.mutex before it writes
InitWaitsForMutex == mutex = NoThread

\* initialize takes no lock (there is no q.mutex.Lock() in it): a write of
\* it never waits for a caller of Read
InitMayWrite == TRUE

\* a write of initialize falls between the raw reads of every call that is
\* in its loop and has issued a raw read
MidAfterWrite ==
    [t \in Threads |->
        IF pc[t] = "loop" /\ Len(busLog[t]) > 0 /\ mid[t] = 0 THEN 1 ELSE mid[t]]

\* the hook fires: q.afterStart() with afterStart = q.initialize; it fires
\* once, and again only after an initialization that failed
Start ==
    /\ phase = "constructed"
    /\ initPc = "idle"
    /\ initErr # NoErr
    /\ initPc' = "reset"
    /\ initErr' = NoCall
    /\ initLog' = << >>
    /\ UNCHANGED cfgVars
    /\ UNCHANGED acqVars
    /\ UNCHANGED mid

\* q.connection.WriteByteData(qmc5883lRegCtrl2, qmc5883lCtrl2_SOFT_RST)
SoftReset(err) ==
    /\ InitMayWrite
    /\ initPc = "reset"
    /\ initLog' = Append(initLog, WriteOp(qmc5883lRegCtrl2, qmc5883lCtrl2_SOFT_RST, err))
    /\ IF InitAborts(err)
       THEN initPc' = "idle" /\ initErr' = err
       ELSE initPc' = "ctrl1" /\ initErr' = initErr
    /\ UNCHANGED cfgVars
    /\ UNCHANGED acqVars
    /\ mid' = MidAfterWrite

\* q.connection.WriteByteData(qmc5883lRegCtrl1, ctrl1)
ConfigureCtrl1(err) ==
    /\ InitMayWrite
    /\ initPc = "ctrl1"
    /\ initLog' = Append(initLog,
                         WriteOp(qmc5883lRegCtrl1, Ctrl1Value(mode, odr, rng, osr), err))
    /\ IF InitAborts(err)
       THEN initPc' = "idle" /\ initErr' = err
       ELSE initPc' = "ctrl2" /\ initErr' = initErr
    /\ UNCHANGED cfgVars
    /\ UNCHANGED acqVars
    /\ mid' = MidAfterWrite

\* return q.connection.WriteByteData(qmc5883lRegCtrl2, ctrl2)
ConfigureCtrl2(err) ==
    /\ InitMayWrite
    /\ initPc = "ctrl2"
    /\ initLog' = Append(initLog, WriteOp(qmc5883lRegCtrl2, Ctrl2Value, err))
    /\ initPc' = "idle"
    /\ initErr' = err
    /\ UNCHANGED cfgVars
    /\ UNCHANGED acqVars
    /\ mid' = MidAfterWrite

\* ------------------------------------------------------------------------
\* Acquisition: readRawData, Read, Heading
\* ------------------------------------------------------------------------

\* uint16(b) << 8
Shl8(b) == ToUint16(b * 256)

\* variant: the second byte of the pair taken as the high byte
RawAxisLowFirst(hi, lo) == ToInt16(BitOr(ToUint16(hi), Shl8(lo)))

\* one axis of readRawData: int16(uint16(lo) | uint16(hi)<<8)
RawAxis(hi, lo) == ToInt16(BitOr(ToUint16(lo), Shl8(hi)))

\* readRawData on a block that was read without error (data is 1-based here)
readRawData(data) ==
    [x |-> RawAxis(data[1], data[2]),
     y |-> RawAxis(data[3], data[4]),
     z |-> RawAxis(data[5], data[6])]

\* the bus operation of readRawData: ReadBlockData(qmc5883lRegX, data)
RawReadOp(err) == ReadOp(qmc5883lRegX, rawDataLen, err)

\* variant: the error of a raw read is ignored
ReadAbortsNever(err) == FALSE

\* if err != nil { return 0, 0, 0, err }
ReadAborts(err) == err # NoErr

\* variant: the 2 Gauss factor whatever the range
ScaleAlways2G(r) == scale2G

\* scale := 12000.0; if q.rng == 8 { scale = 3000.0 }
Scale(r) == IF r = 8 THEN scale8G ELSE scale2G

\* a rational divided by a positive integer
RatDiv(r, k) == << r[1], r[2] * k >>

\* avg := float64(sum) / numReadings; return avg / scale
Scaled(sum, r) == RatDiv(RatDiv(<< sum, 1 >>, numReadings), Scale(r))

RECURSIVE GCD(_, _)
\* greatest common divisor of two positive integers
GCD(a, b) == IF b = 0 THEN a ELSE GCD(b, a % b)

\* math.Atan2(y, x) * 180 / math.Pi of two rationals, as the sector
\* << lo, hi >> of degrees it lies in: the value lo when lo = hi, a value
\* strictly between lo and hi otherwise
Atan2Degrees(y, x) ==
    LET g == GCD(y[2], x[2])
        ny == y[1] * (x[2] \div g)
        nx == x[1] * (y[2] \div g)
        ay == IF ny < 0 THEN -ny ELSE ny
        ax == IF nx < 0 THEN -nx ELSE nx
    IN  IF ny = 0 THEN (IF nx >= 0 THEN << 0, 0 >> ELSE << 180, 180 >>)
        ELSE IF nx = 0 THEN (IF ny > 0 THEN << 90, 90 >> ELSE << -90, -90 >>)
        ELSE IF nx > 0 /\ ny > 0
             THEN (IF ay < ax THEN << 0, 45 >>
                   ELSE IF ay = ax THEN << 45, 45 >> ELSE << 45, 90 >>)
        ELSE IF nx < 0 /\ ny > 0
             THEN (IF ay < ax THEN << 135, 180 >>
                   ELSE IF ay = ax THEN << 135, 135 >> ELSE << 90, 135 >>)
        ELSE IF nx > 0
             THEN (IF ay < ax THEN << -45, 0 >>
                   ELSE IF ay = ax THEN << -45, -45 >> ELSE << -90, -45 >>)
        ELSE (IF ay < ax THEN << -180, -135 >>
              ELSE IF ay = ax THEN << -135, -135 >> ELSE << -135, -90 >>)

\* variant: 360 is added to an angle of 0 too
NormalizeInclusive(h) == IF h[2] <= 0 THEN << h[1] + 360, h[2] + 360 >> ELSE h

\* if headingDegrees < 0 { headingDegrees += 360 }
Normalize(h) == IF h[1] < 0 THEN << h[1] + 360, h[2] + 360 >> ELSE h

\* what Heading makes of a successful Read
HeadingOf(x, y) == Normalize(Atan2Degrees(y, x))

\* variant: one iteration too many
LoopContinuesOffByOne(n) == n <= numReadings

\* for i := 0; i < numReadings; i++
LoopContinues(n) == n < numReadings

\* variant: Lock does not wait
CanLockAlways == TRUE

\* q.mutex.Lock() returns only when the mutex is free
CanLock == mutex = NoThread

\* q.connection is set once the bus connection is established, which is
\* when the hook fires
Connected == initPc # "idle" \/ initErr # NoCall

\* a caller enters Read (k = "Read") or Heading, which calls Read (k = "Heading")
Call(t, k) ==
    /\ phase = "constructed"
    /\ Connected
    /\ pc[t] = "idle"
    /\ pc' = [pc EXCEPT ![t] = "lock"]
    /\ kind' = [kind EXCEPT ![t] = k]
    /\ i' = [i EXCEPT ![t] = 0]
    /\ sumX' = [sumX EXCEPT ![t] = 0]
    /\ sumY' = [sumY EXCEPT ![t] = 0]
    /\ sumZ' = [sumZ EXCEPT ![t] = 0]
    /\ cnt' = [cnt EXCEPT ![t] = ZeroCnt]
    /\ busLog' = [busLog EXCEPT ![t] = << >>]
    /\ res' = [res EXCEPT ![t] = NoRes]
    /\ mid' = [mid EXCEPT ![t] = 0]
    /\ UNCHANGED mutex
    /\ UNCHANGED cfgVars
    /\ UNCHANGED initVars

\* variant: the lock is kept when Read returns an error
UnlockOnSuccessOnly(t, err) == IF err # NoErr THEN t ELSE NoThread

\* the deferred q.mutex.Unlock() runs at every return of Read
DeferredUnlock(t, err) == NoThread

\* q.mutex.Lock(); defer q.mutex.Unlock()
Lock(t) ==
    /\ pc[t] = "lock"
    /\ CanLock
    /\ mutex' = t
    /\ pc' = [pc EXCEPT ![t] = "loop"]
    /\ UNCHANGED << kind, i, sumX, sumY, sumZ, cnt, busLog, res, mid >>
    /\ UNCHANGED cfgVars
    /\ UNCHANGED initVars

\* one iteration of the loop of Read: readRawData answers block b, or err
ReadLoop(t, b, err) ==
    /\ pc[t] = "loop"
    /\ LoopContinues(i[t])
    /\ busLog' = [busLog EXCEPT ![t] = Append(@, RawReadOp(err))]
    /\ mid' = [mid EXCEPT ![t] = IF ReadAborts(err) THEN 0
                                 ELSE IF @ = 1 THEN 2 ELSE @]
    /\ IF ReadAborts(err)
       THEN /\ res' = [res EXCEPT ![t] = [x |-> << 0, 1 >>, y |-> << 0, 1 >>,
                                         z |-> << 0, 1 >>, err |-> err,
                                         heading |-> << 0, 0 >>]]
            /\ pc' = [pc EXCEPT ![t] = "done"]
            /\ mutex' = DeferredUnlock(t, err)
            /\ i' = [i EXCEPT ![t] = 0]
            /\ sumX' = [sumX EXCEPT ![t] = 0]
            /\ sumY' = [sumY EXCEPT ![t] = 0]
            /\ sumZ' = [sumZ EXCEPT ![t] = 0]
            /\ cnt' = cnt
       ELSE /\ LET raw == readRawData(Blocks[b])
               IN  /\ sumX' = [sumX EXCEPT ![t] = AddInt32(@, raw.x)]
                   /\ sumY' = [sumY EXCEPT ![t] = AddInt32(@, raw.y)]
                   /\ sumZ' = [sumZ EXCEPT ![t] = AddInt32(@, raw.z)]
            /\ cnt' = [cnt EXCEPT ![t][b] = @ + 1]
            /\ i' = [i EXCEPT ![t] = @ + 1]
            /\ UNCHANGED << res, pc, mutex >>
    /\ UNCHANGED kind
    /\ UNCHANGED cfgVars
    /\ UNCHANGED initVars

\* the loop is over: average, scale, return (the deferred Unlock runs);
\* Heading goes on to derive the angle from x and y
ReadReturn(t) ==
    /\ pc[t] = "loop"
    /\ ~LoopContinues(i[t])
    /\ LET x == Scaled(sumX[t], rng)
           y == Scaled(sumY[t], rng)
           z == Scaled(sumZ[t], rng)
       IN  res' = [res EXCEPT ![t] =
                      [x |-> x, y |-> y, z |-> z, err |-> NoErr,
                       heading |-> IF kind[t] = "Heading"
                                   THEN HeadingOf(x, y) ELSE << 0, 0 >>]]
    /\ pc' = [pc EXCEPT ![t] = "done"]
    /\ mutex' = DeferredUnlock(t, NoErr)
    /\ i' = [i EXCEPT ![t] = 0]
    /\ sumX' = [sumX EXCEPT ![t] = 0]
    /\ sumY' = [sumY EXCEPT ![t] = 0]
    /\ sumZ' = [sumZ EXCEPT ![t] = 0]
    /\ mid' = [mid EXCEPT ![t] = 0]
    /\ UNCHANGED << kind, cnt, busLog >>
    /\ UNCHANGED cfgVars
    /\ UNCHANGED initVars

\* the caller has taken the result and is free to call again
Return(t) ==
    /\ pc[t] = "done"
    /\ pc' = [pc EXCEPT ![t] = "idle"]
    /\ kind' = [kind EXCEPT ![t] = "none"]
    /\ cnt' = [cnt EXCEPT ![t] = ZeroCnt]
    /\ busLog' = [busLog EXCEPT ![t] = << >>]
    /\ res' = [res EXCEPT ![t] = NoRes]
    /\ UNCHANGED << mutex, i, sumX, sumY, sumZ, mid >>
    /\ UNCHANGED cfgVars
    /\ UNCHANGED initVars

\* ------------------------------------------------------------------------
\* Specifications
\* ------------------------------------------------------------------------

BusResults == {NoErr, BusErr}

Construct ==
    \/ \E val \in ODRCandidates, keys \in KeyOrders(qmc5883lODRBits) :
           WithQMC5883LODR(val, keys)
    \/ \E val \in RNGCandidates, keys \in KeyOrders(qmc5883lRNGBits) :
           WithQMC5883LRNG(val, keys)
    \/ \E val \in OSRCandidates, keys \in KeyOrders(qmc5883lOSRBits) :
           WithQMC5883LOSR(val, keys)
    \/ NewQMC5883LDriver

Initialize ==
    \/ Start
    \/ \E err \in BusResults : SoftReset(err)
    \/ \E err \in BusResults : ConfigureCtrl1(err)
    \/ \E err \in BusResults : ConfigureCtrl2(err)

Acquire(T, B) ==
    \E t \in T :
        \/ Call(t, "Read")
        \/ Call(t, "Heading")
        \/ Lock(t)
        \/ \E b \in B, err \in BusResults : ReadLoop(t, b, err)
        \/ ReadReturn(t)
        \/ Return(t)

\* one caller; the sensor answers with either of the first two blocks
Next == Construct \/ Initialize \/ Acquire({"t1"}, {1, 2})

Spec == Init /\ [][Next]_vars

\* the driver alone: construction and initialization, no acquisition call
NextDriver == Construct \/ Initialize

SpecDriver == Init /\ [][NextDriver]_vars

\* a constructed driver (default options, or the range option) shared by two
\* callers; the sensor answers with the third block
InitConc ==
    /\ phase = "constructed"
    /\ panicVal = NoErr
    /\ nopts = 0
    /\ odr = 50
    /\ rng \in DOMAIN qmc5883lRNGBits
    /\ applied = [ODR |-> 50, RNG |-> rng, OSR |-> 512]
    /\ osr = qmc5883lOSRBits[512]
    /\ mode = qmc5883lCtrl1_Mode_Continuous
    /\ initPc = "idle"
    /\ initErr = NoCall
    /\ initLog = << >>
    /\ mutex = NoThread
    /\ pc = [t \in Threads |-> "idle"]
    /\ kind = [t \in Threads |-> "none"]
    /\ i = [t \in Threads |-> 0]
    /\ sumX = [t \in Threads |-> 0]
    /\ sumY = [t \in Threads |-> 0]
    /\ sumZ = [t \in Threads |-> 0]
    /\ cnt = [t \in Threads |-> ZeroCnt]
    /\ busLog = [t \in Threads |-> << >>]
    /\ res = [t \in Threads |-> NoRes]
    /\ mid = [t \in Threads |-> 0]

NextConc == Initialize \/ Acquire(Threads, {3})

SpecConc == InitConc /\ [][NextConc]_vars

\* every bus operation of a filtered read returns, Read goes on to its
\* return, and sync.Mutex hands the lock to a caller that keeps waiting
FairAcquire ==
    \A t \in Threads :
        /\ WF_vars(\E err \in BusResults : ReadLoop(t, 3, err))
        /\ WF_vars(ReadReturn(t))
        /\ SF_vars(Lock(t))

SpecConcFair == InitConc /\ [][NextConc]_vars /\ FairAcquire

\* a constructed driver and one caller; the sensor answers with the four
\* blocks that lie on the axes of the x-y plane
NextHeading == Initialize \/ Acquire({"t1"}, {3, 4, 5, 6})

SpecHeading == InitConc /\ [][NextHeading]_vars

\* a constructed driver and one caller; the sensor answers with the two
\* blocks that hold the extreme sample values
NextRaw == Initialize \/ Acquire({"t1"}, {1, 2})

SpecRaw == InitConc /\ [][NextRaw]_vars

\* ------------------------------------------------------------------------
\* Properties
\* ------------------------------------------------------------------------

RECURSIVE BitAnd(_, _)
\* a & b on unsigned integers
BitAnd(a, b) ==
    IF a = 0 \/ b = 0 THEN 0
    ELSE (IF a % 2 = 1 /\ b % 2 = 1 THEN 1 ELSE 0) + 2 * BitAnd(a \div 2, b \div 2)

\* the documented encodings (register map of the data sheet)
DocODR == (10 :> 0) @@ (50 :> 4) @@ (100 :> 8) @@ (200 :> 12)
DocRNG == (2 :> 0) @@ (8 :> 16)
DocOSR == (512 :> 0) @@ (256 :> 64) @@ (128 :> 128) @@ (64 :> 192)
DocModes == {0, 1}

\* the Control 1 byte documented for the stored configuration
DocCtrl1 == mode + DocODR[odr] + DocRNG[rng] + osr

\* the writes of an initialization without a failure, in order
DocInitWrites ==
    << [op |-> "write", reg |-> 10, arg |-> 128, err |-> NoErr],
       [op |-> "write", reg |-> 9, arg |-> DocCtrl1, err |-> NoErr],
       [op |-> "write", reg |-> 10, arg |-> 64, err |-> NoErr] >>

InitLogClean == \A k \in 1..Len(initLog) : initLog[k].err = NoErr

\* C1: an initialization in which no write fails issues exactly three bus
\* writes and no read, in the order soft-reset (0x80 to 0x0A), Control 1
\* (the combined byte to 0x09), roll-over (0x40 to 0x0A): at every point of
\* the run the operations issued so far are a prefix of that sequence, and
\* a run that returned nil issued all three.
C1_InitSequence ==
    InitLogClean =>
        /\ Len(initLog) <= 3
        /\ initLog = SubSeq(DocInitWrites, 1, Len(initLog))
        /\ (initPc = "idle" /\ initErr = NoErr) => Len(initLog) = 3
        /\ (initPc = "ctrl1") => Len(initLog) = 1
        /\ (initPc = "ctrl2") => Len(initLog) = 2

\* an initialization has returned nil (with a non-default configuration)
C1_Witness ==
    /\ initPc = "idle"
    /\ initErr = NoErr
    /\ Len(initLog) = 3
    /\ odr = 200

\* C2: when the k-th write of initialize fails, initialize returns that
\* error and issues no further write: a failed write is the last operation
\* of its run, the run has ended with that error, and the k-1 writes before
\* it are the successful ones of the sequence, each issued once.
C2_AbortOnFailedWrite ==
    \A k \in 1..Len(initLog) :
        initLog[k].err # NoErr =>
            /\ k = Len(initLog)
            /\ k <= 3
            /\ initPc = "idle"
            /\ initErr = initLog[k].err
            /\ SubSeq(initLog, 1, k - 1) = SubSeq(DocInitWrites, 1, k - 1)
            /\ initLog[k].reg = DocInitWrites[k].reg
            /\ initLog[k].arg = DocInitWrites[k].arg

\* the Control 1 write failed: the roll-over write is not issued
C2_Witness ==
    /\ Len(initLog) = 2
    /\ initLog[2].err = BusErr
    /\ initErr = BusErr
    /\ initPc = "idle"

\* every legal configuration: mode, ODR, range, OSR ratio
LegalConfigs == DocModes \X (DOMAIN DocODR) \X (DOMAIN DocRNG) \X (DOMAIN DocOSR)

\* the four patterns the code combines for a legal configuration
PatternsOf(c) ==
    << c[1], MapGet(qmc5883lODRBits, c[2]), MapGet(qmc5883lRNGBits, c[3]),
       MapGet(qmc5883lOSRBits, c[4]) >>

\* the Control 1 byte the code computes for a legal configuration
ByteOf(c) == Ctrl1Value(c[1], c[2], c[3], PatternsOf(c)[4])

\* bits 0-1, 2-3, 4-5, 6-7
FieldMasks == << 3, 12, 48, 192 >>

FieldsDisjoint ==
    \A c \in LegalConfigs :
        LET p == PatternsOf(c)
        IN  /\ \A f \in 1..4 : BitAnd(p[f], 255 - FieldMasks[f]) = 0
            /\ \A f, g \in 1..4 : f # g => BitAnd(p[f], p[g]) = 0
            /\ ByteOf(c) = p[1] + p[2] + p[3] + p[4]

ByteInjective ==
    \A c, d \in LegalConfigs : ByteOf(c) = ByteOf(d) => c = d

\* C3: for every legal configuration the four patterns combined into the
\* Control 1 byte lie in pairwise disjoint bit positions (mode bits 0-1, ODR
\* bits 2-3, range bits 4-5, OSR bits 6-7), the byte is their arithmetic sum,
\* and two different legal configurations never give the same byte; the byte
\* an initialization writes is that sum for the stored configuration.
C3_Ctrl1FieldsDisjoint ==
    /\ FieldsDisjoint
    /\ ByteInjective
    /\ \A k \in 1..Len(initLog) :
           initLog[k].reg = 9 =>
               /\ initLog[k].arg = mode + MapGet(qmc5883lODRBits, odr)
                                        + MapGet(qmc5883lRNGBits, rng) + osr
               /\ initLog[k].arg % 4 = mode
               /\ (initLog[k].arg \div 4) % 4 = DocODR[odr] \div 4
               /\ (initLog[k].arg \div 16) % 4 = DocRNG[rng] \div 16
               /\ (initLog[k].arg \div 64) % 4 = osr \div 64

\* the byte 0xDD was written: continuous, 200 Hz, 8 Gauss, ratio 64
C3_Witness ==
    /\ Len(initLog) >= 2
    /\ initLog[2].arg = 221
    /\ odr = 200 /\ rng = 8 /\ osr = 192

\* C4: in every reachable state, whatever candidate values the options were
\* applied with, the stored configuration is legal: odr in {10,50,100,200},
\* rng in {2,8}, osr (a bit pattern) in {0x00,0x40,0x80,0xC0}, mode in
\* {0x00,0x01}; an illegal candidate is never stored.
C4_StoredConfigLegal ==
    /\ odr \in {10, 50, 100, 200}
    /\ rng \in {2, 8}
    /\ osr \in {0, 64, 128, 192}
    /\ mode \in {0, 1}

\* a legal option was applied and then an illegal one was rejected
C4_Witness ==
    /\ phase = "panicked"
    /\ nopts >= 2
    /\ << odr, rng, osr >> # << 50, 2, 0 >>

ValidationAcceptsKeys ==
    /\ \A v \in 0..255 :
           (qmc5883lValidateODR(v, << 10, 50, 100, 200 >>) = NoErr)
               <=> (v \in {10, 50, 100, 200})
    /\ \A v \in 0..255 :
           (qmc5883lValidateRNG(v, << 2, 8 >>) = NoErr) <=> (v \in {2, 8})
    /\ \A v \in 0..1100 :
           (qmc5883lValidateOSR(v, << 512, 256, 128, 64 >>) = NoErr)
               <=> (v \in {512, 256, 128, 64})

PatternsDocumented ==
    \A c \in LegalConfigs :
        /\ BitAnd(ByteOf(c), 12) = DocODR[c[2]]
        /\ BitAnd(ByteOf(c), 48) = DocRNG[c[3]]
        /\ BitAnd(ByteOf(c), 192) = DocOSR[c[4]]

\* C5: validation of an ODR, range or OSR candidate succeeds exactly for the
\* keys of its table, and the pattern initialize puts into the Control 1 byte
\* for an accepted value is the documented one (ODR 10->0x00, 50->0x04,
\* 100->0x08, 200->0x0C; range 2->0x00, 8->0x10; OSR 512->0x00, 256->0x40,
\* 128->0x80, 64->0xC0); the stored OSR pattern is a documented one.
C5_ValidationAndPatterns ==
    /\ ValidationAcceptsKeys
    /\ PatternsDocumented
    /\ \E r \in DOMAIN DocOSR : osr = DocOSR[r]
    /\ \A k \in 1..Len(initLog) :
           initLog[k].reg = 9 =>
               /\ BitAnd(initLog[k].arg, 12) = DocODR[odr]
               /\ BitAnd(initLog[k].arg, 48) = DocRNG[rng]
               /\ BitAnd(initLog[k].arg, 192) = osr

\* the options 100 Hz and ratio 128 were accepted and committed
C5_Witness ==
    /\ odr = 100 /\ osr = 128
    /\ Len(initLog) >= 2
    /\ initLog[2].err = NoErr

\* the (x, y, z) values the sample blocks stand for
SampleXYZ ==
    << << 12000, -32768, 32767 >>, << -32768, 32767, -200 >>, << 1, 0, 0 >>,
       << 0, 1, 0 >>, << -1, 0, 0 >>, << 0, -1, 0 >> >>

\* the sum over one axis of the samples a call has read
SampleSum(t, a) ==
    cnt[t][1] * SampleXYZ[1][a] + cnt[t][2] * SampleXYZ[2][a]
        + cnt[t][3] * SampleXYZ[3][a] + cnt[t][4] * SampleXYZ[4][a]
        + cnt[t][5] * SampleXYZ[5][a] + cnt[t][6] * SampleXYZ[6][a]

SamplesRead(t) ==
    cnt[t][1] + cnt[t][2] + cnt[t][3] + cnt[t][4] + cnt[t][5] + cnt[t][6]

\* counts per Gauss documented for the range
DocScale == IF rng = 2 THEN 12000 ELSE 3000

Succeeded(t) == pc[t] = "done" /\ res[t].err = NoErr
Failed(t) == pc[t] = "done" /\ res[t].err # NoErr

\* C6: when all 10 raw reads of a filtered read succeed, each axis of the
\* result is (sum of the 10 raw samples of that axis) / 10, divided by 12000
\* counts per Gauss at range 2 and by 3000 at range 8 (the factor depends on
\* the range only); 10 readings of x = 12000 at range 2 give x = 1.
C6_FilteredAverage ==
    \A t \in Threads :
        Succeeded(t) =>
            /\ SamplesRead(t) = 10
            /\ res[t].x = << SampleSum(t, 1), 10 * DocScale >>
            /\ res[t].y = << SampleSum(t, 2), 10 * DocScale >>
            /\ res[t].z = << SampleSum(t, 3), 10 * DocScale >>
            /\ (cnt[t][1] = 10 /\ rng = 2) => res[t].x[1] = res[t].x[2]

\* ten readings of x = 12000 at range 2 were averaged
C6_Witness ==
    /\ Succeeded("t1")
    /\ kind["t1"] = "Read"
    /\ cnt["t1"][1] = 10
    /\ rng = 2
    /\ res["t1"].x = << 120000, 120000 >>

\* C7: if the k-th raw read of a filtered read fails, Read returns that bus
\* error with all three axes 0, has issued exactly k block reads (none
\* after the failing one), and returns no average of the k-1 samples read.
C7_AbortOnFailedRead ==
    \A t \in Threads :
        \A k \in 1..Len(busLog[t]) :
            busLog[t][k].err # NoErr =>
                /\ k = Len(busLog[t])
                /\ k <= 10
                /\ SamplesRead(t) = k - 1
                /\ pc[t] = "done"
                /\ res[t].err = busLog[t][k].err
                /\ res[t].x[1] = 0 /\ res[t].y[1] = 0 /\ res[t].z[1] = 0
                /\ res[t].heading = << 0, 0 >>

\* the fourth raw read failed after three samples with non-zero sums
C7_Witness ==
    /\ Failed("t1")
    /\ Len(busLog["t1"]) = 4
    /\ cnt["t1"][1] = 3
    /\ res["t1"].x = << 0, 1 >>

\* C8: a filtered read that succeeds has issued exactly 10 block reads, each
\* of 6 bytes from the X output register 0x00, and no bus write; Heading
\* performs one filtered read, hence the same 10 block reads.
C8_TenBlockReads ==
    \A t \in Threads :
        /\ \A k \in 1..Len(busLog[t]) :
               /\ busLog[t][k].op = "read"
               /\ busLog[t][k].reg = 0
               /\ busLog[t][k].arg = 6
        /\ Succeeded(t) =>
               /\ Len(busLog[t]) = 10
               /\ \A k \in 1..10 : busLog[t][k].err = NoErr

\* a Heading call has returned a heading
C8_Witness ==
    /\ Succeeded("t1")
    /\ kind["t1"] = "Heading"
    /\ Len(busLog["t1"]) = 10

\* callers inside the loop of Read
InFlight == {t \in Threads : pc[t] = "loop"}

\* C9: with several threads calling Read or Heading on one driver at most
\* one filtered read is in progress at any time: a caller in the loop holds
\* the lock from before its first raw read until it returns (it is not
\* released between raw reads), and a caller that is not in the loop does
\* not hold it.
C9_OneFilteredReadAtATime ==
    /\ Cardinality(InFlight) <= 1
    /\ \A t \in Threads : (pc[t] = "loop") <=> (mutex = t)
    /\ \A t \in Threads :
           (Len(busLog[t]) > 0 /\ pc[t] # "done") => mutex = t

\* one caller is between two raw reads while the other waits for the lock
C9_Witness ==
    /\ pc["t1"] = "loop"
    /\ i["t1"] = 5
    /\ pc["t2"] = "lock"
    /\ kind["t2"] = "Heading"

\* the coarse state of the driver
DriverState ==
    IF initPc # "idle" THEN "Initializing"
    ELSE IF initErr = NoErr THEN "Ready"
    ELSE "Uninitialized"

\* C10 as claimed: no raw block read is issued by Read or Heading unless the
\* initialization sequence has completed successfully (state Ready).
C10_ReadsOnlyWhenReady ==
    \A t \in Threads : Len(busLog[t]) > 0 => DriverState = "Ready"

\* C10: the driver is Ready only after a run of initialize that issued all
\* three writes without a failure, and after a run that failed at some
\* write it is not Ready until a later run succeeds; Read and Heading do
\* not look at this state.
C10_ReadyAfterThreeWrites ==
    /\ DriverState = "Ready" => (Len(initLog) = 3 /\ InitLogClean)
    /\ ~InitLogClean => DriverState # "Ready"

\* block reads were issued while the last initialization had failed
C10_Witness ==
    /\ DriverState = "Uninitialized"
    /\ initErr = BusErr
    /\ Len(busLog["t1"]) >= 2

\* a write of initialize is enabled
InitWriteEnabled ==
    ENABLED (\E err \in BusResults :
                 SoftReset(err) \/ ConfigureCtrl1(err) \/ ConfigureCtrl2(err))

\* C11: initialize never takes the lock that Read holds, so it is not
\* serialized against acquisition: whenever a run of initialize is under way
\* its next write can be issued, whoever holds the mutex, and no lock holder
\* is changed by the initialization; a write of it can fall between two raw
\* reads of one filtered read (the witness).
C11_InitNotSerialized ==
    /\ initPc # "idle" => InitWriteEnabled
    /\ \A t \in Threads : mid[t] # 0 => (pc[t] = "loop" /\ mutex = t)

\* a write of initialize was issued between two raw reads of the filtered
\* read that t1 has in flight
C11_Witness ==
    /\ pc["t1"] = "loop"
    /\ mutex = "t1"
    /\ mid["t1"] = 2
    /\ Len(initLog) >= 1
    /\ Len(busLog["t1"]) >= 2

\* a Heading call has returned a heading
HeadingDone(t) == Succeeded(t) /\ kind[t] = "Heading"

\* C12: for every successful filtered reading Heading returns h with
\* 0 <= h < 360: atan2(y, x) in degrees, plus 360 exactly when that angle is
\* negative (y < 0); (1,0) gives 0, (0,1) gives 90, (-1,0) gives 180 and
\* (0,-1) gives 270, and scaling x and y by one positive constant (here the
\* divisor 10 * scale of the raw sums) does not change h. An angle is
\* stated by the 45-degree sector it lies in.
C12_HeadingRange ==
    \A t \in Threads :
        HeadingDone(t) =>
            LET h == res[t].heading
                sx == SampleSum(t, 1)
                sy == SampleSum(t, 2)
            IN  /\ 0 <= h[1] /\ h[1] <= h[2] /\ h[2] <= 360
                /\ h # << 360, 360 >>
                /\ (sy < 0) <=> (h[1] >= 180 /\ h # << 180, 180 >>)
                /\ (sy = 0 /\ sx > 0) => h = << 0, 0 >>
                /\ (sx = 0 /\ sy > 0) => h = << 90, 90 >>
                /\ (sy = 0 /\ sx < 0) => h = << 180, 180 >>
                /\ (sx = 0 /\ sy < 0) => h = << 270, 270 >>
                /\ (sx > 0 /\ sy > 0) => (h[1] >= 0 /\ h[2] <= 90)
                /\ (sx < 0 /\ sy > 0) => (h[1] >= 90 /\ h[2] <= 180)
                /\ (sx < 0 /\ sy < 0) => (h[1] >= 180 /\ h[2] <= 270)
                /\ (sx > 0 /\ sy < 0) => (h[1] >= 270 /\ h[2] <= 360)
                /\ h = HeadingOf(<< sx, 1 >>, << sy, 1 >>)
                /\ \A k \in 1..4 : h = HeadingOf(<< k * sx, 7 >>, << k * sy, 7 >>)

\* Heading has returned 270 for a reading on the negative y axis
C12_Witness ==
    /\ HeadingDone("t1")
    /\ cnt["t1"][6] = 10
    /\ res["t1"].heading = << 270, 270 >>

\* the configuration NewQMC5883LDriver starts from
IsDefaultConfig == odr = 50 /\ rng = 2 /\ osr = 0 /\ mode = 1

\* C13: a driver constructed with no options has odr = 50, rng = 2, the OSR
\* pattern of ratio 512 (0x00) and mode continuous (0x01), and its
\* initialization writes the Control 1 byte 0x05; no option sets the mode,
\* so the mode bits of every Control 1 byte written are 0x01.
C13_DefaultsAndMode ==
    /\ (phase = "constructing" /\ nopts = 0) => IsDefaultConfig
    /\ mode = 1
    /\ \A k \in 1..Len(initLog) :
           initLog[k].reg = 9 =>
               /\ initLog[k].arg % 4 = 1
               /\ IsDefaultConfig => initLog[k].arg = 5

\* the default driver has been initialized with the byte 0x05
C13_Witness ==
    /\ IsDefaultConfig
    /\ phase = "constructed"
    /\ initErr = NoErr
    /\ Len(initLog) = 3
    /\ initLog[2].arg = 5

\* no bus operation has been issued for the driver
NoBusOperation ==
    /\ initLog = << >>
    /\ initPc = "idle"
    /\ initErr = NoCall
    /\ \A t \in Threads : busLog[t] = << >> /\ pc[t] = "idle"

\* C14: an option with an illegal value aborts the construction at that
\* option: the step that panics changes no configuration field, nothing
\* happens after it (no later option is applied, no driver is returned), and
\* so no initialization write or acquisition read is issued for the instance.
C14_PanicAbortsConstruction ==
    [][ /\ phase # "panicked"
        /\ phase' = "panicked" =>
               /\ phase = "constructing"
               /\ nopts' = nopts + 1
               /\ UNCHANGED << odr, rng, osr, mode >>
               /\ NoBusOperation' ]_vars

\* the second option of a construction was rejected
C14_Witness ==
    /\ phase = "panicked"
    /\ nopts = 2
    /\ odr = 200
    /\ NoBusOperation

\* the messages with the legal values in ascending order
DocErrors ==
    { [msg |-> "ODR must be one of", keys |-> << 10, 50, 100, 200 >>],
      [msg |-> "RNG must be one of", keys |-> << 2, 8 >>],
      [msg |-> "OSR must be one of", keys |-> << 64, 128, 256, 512 >>] }

\* C15: when validation of an ODR, range or OSR candidate fails, the error
\* lists all legal values of the option, each once, in ascending order,
\* whatever the iteration order of the table: [10 50 100 200], [2 8],
\* [64 128 256 512].
C15_ErrorListsSortedKeys ==
    /\ \A v \in ODRCandidates \ DOMAIN DocODR :
           \A keys \in KeyOrders(qmc5883lODRBits) :
               qmc5883lValidateODR(v, keys).keys = << 10, 50, 100, 200 >>
    /\ \A v \in RNGCandidates \ DOMAIN DocRNG :
           \A keys \in KeyOrders(qmc5883lRNGBits) :
               qmc5883lValidateRNG(v, keys).keys = << 2, 8 >>
    /\ \A v \in OSRCandidates \ DOMAIN DocOSR :
           \A keys \in KeyOrders(qmc5883lOSRBits) :
               qmc5883lValidateOSR(v, keys).keys = << 64, 128, 256, 512 >>
    /\ (phase = "panicked") <=> (panicVal # NoErr)
    /\ phase = "panicked" => panicVal \in DocErrors

\* an OSR candidate was rejected
C15_Witness ==
    /\ phase = "panicked"
    /\ panicVal = [msg |-> "OSR must be one of", keys |-> << 64, 128, 256, 512 >>]

\* counts per Gauss of the range whose bits a Control 1 byte carries
ScaleOfCtrl1(b) == IF BitAnd(b, 16) = 16 THEN 3000 ELSE 12000

\* the Control 1 bytes that initialization wrote without a bus error
CommittedCtrl1 ==
    {initLog[k].arg : k \in {j \in 1..Len(initLog) :
                                 initLog[j].reg = 9 /\ initLog[j].err = NoErr}}

\* C16: once construction has returned no step of initialize, Read or
\* Heading, successful or failed and in any interleaving, changes odr, rng,
\* osr or mode; so every filtered result is scaled by the range whose bits
\* initialization committed in the Control 1 byte.
C16_ConfigImmutable ==
    [][ /\ phase = "constructed" => UNCHANGED << odr, rng, osr, mode >>
        /\ \A t \in Threads : \A b \in CommittedCtrl1' :
               Succeeded(t)' =>
                   /\ res'[t].x[2] = 10 * ScaleOfCtrl1(b)
                   /\ res'[t].y[2] = 10 * ScaleOfCtrl1(b)
                   /\ res'[t].z[2] = 10 * ScaleOfCtrl1(b) ]_vars

\* both callers hold a result scaled for range 8 after a completed
\* initialization that committed range 8
C16_Witness ==
    /\ rng = 8
    /\ Len(initLog) = 3 /\ initErr = NoErr
    /\ CommittedCtrl1 = {Ctrl1Value(mode, odr, 8, osr)}
    /\ Succeeded("t1") /\ res["t1"].x[2] = 30000
    /\ Failed("t2")

\* the accumulators of a caller
Sums(t) == << sumX[t], sumY[t], sumZ[t] >>

\* C17: during a filtered read no accumulator overflows int32: after i
\* samples each partial sum is the exact sum of the samples read and lies in
\* [-32768*i, 32767*i], hence in [-327680, 327670], and the average of the
\* 10 samples lies in [-32768, 32767].
C17_AccumulatorInRange ==
    \A t \in Threads : \A a \in 1..3 :
        /\ pc[t] = "loop" =>
               /\ i[t] = SamplesRead(t)
               /\ i[t] <= 10
               /\ Sums(t)[a] = SampleSum(t, a)
               /\ -32768 * i[t] <= Sums(t)[a] /\ Sums(t)[a] <= 32767 * i[t]
               /\ -327680 <= Sums(t)[a] /\ Sums(t)[a] <= 327670
        /\ Succeeded(t) =>
               LET sum == << res[t].x[1], res[t].y[1], res[t].z[1] >>[a]
               IN  /\ sum = SampleSum(t, a)
                   /\ -32768 * 10 <= sum /\ sum <= 32767 * 10

\* ten samples with y = -32768 and z = 32767 have been accumulated
C17_Witness ==
    /\ pc["t1"] = "loop"
    /\ i["t1"] = 10
    /\ cnt["t1"][1] = 10
    /\ sumY["t1"] = -327680
    /\ sumZ["t1"] = 327670

\* byte values at the edges of the sign and of the carry between the bytes
ByteSamples == {0, 1, 46, 56, 127, 128, 129, 224, 254, 255}

\* two's-complement signed 16-bit interpretation of (first<<8)|second
TwosComplement16(first, second) ==
    IF first >= 128 THEN first * 256 + second - 65536
    ELSE first * 256 + second

\* C18: a raw read takes x from bytes 0-1, y from bytes 2-3 and z from
\* bytes 4-5 of the block, each as the two's-complement signed 16-bit value
\* of (first<<8)|second; a pair whose first byte is >= 0x80 is negative and
\* every result lies in [-32768, 32767].
C18_RawReadDecoding ==
    /\ \A first, second \in ByteSamples :
           /\ RawAxis(first, second) = TwosComplement16(first, second)
           /\ (first >= 128) <=> (RawAxis(first, second) < 0)
           /\ -32768 <= RawAxis(first, second)
           /\ RawAxis(first, second) <= 32767
    /\ \A b \in DOMAIN Blocks :
           /\ readRawData(Blocks[b]).x = TwosComplement16(Blocks[b][1], Blocks[b][2])
           /\ readRawData(Blocks[b]).y = TwosComplement16(Blocks[b][3], Blocks[b][4])
           /\ readRawData(Blocks[b]).z = TwosComplement16(Blocks[b][5], Blocks[b][6])
           /\ readRawData(Blocks[b]) = [x |-> SampleXYZ[b][1],
                                        y |-> SampleXYZ[b][2],
                                        z |-> SampleXYZ[b][3]]
    /\ \A t \in Threads : \A b \in DOMAIN Blocks :
           (pc[t] = "loop" /\ i[t] = 1 /\ cnt[t][b] = 1) =>
               Sums(t) = << TwosComplement16(Blocks[b][1], Blocks[b][2]),
                            TwosComplement16(Blocks[b][3], Blocks[b][4]),
                            TwosComplement16(Blocks[b][5], Blocks[b][6]) >>

\* the block 80 00 7F FF FF 38 was read as (-32768, 32767, -200)
C18_Witness ==
    /\ pc["t1"] = "loop"
    /\ i["t1"] = 1
    /\ cnt["t1"][2] = 1
    /\ Blocks[2] = << 128, 0, 127, 255, 255, 56 >>
    /\ Sums("t1") = << -32768, 32767, -200 >>

\* a step in which NewQMC5883LDriver applied an option that was accepted
AcceptedODR ==
    /\ phase' = "constructing"
    /\ \E val \in ODRCandidates, keys \in KeyOrders(qmc5883lODRBits) :
           WithQMC5883LODR(val, keys)
AcceptedRNG ==
    /\ phase' = "constructing"
    /\ \E val \in RNGCandidates, keys \in KeyOrders(qmc5883lRNGBits) :
           WithQMC5883LRNG(val, keys)
AcceptedOSR ==
    /\ phase' = "constructing"
    /\ \E val \in OSRCandidates, keys \in KeyOrders(qmc5883lOSRBits) :
           WithQMC5883LOSR(val, keys)

\* the configuration the last legal values of the options stand for
AppliedConfig ==
    /\ odr = applied.ODR
    /\ rng = applied.RNG
    /\ osr = DocOSR[applied.OSR]
    /\ mode = 1

\* C19: an option applied with a legal value changes exactly the field it
\* targets (ODR -> odr, range -> rng, OSR -> osr, stored as the bit pattern
\* of the ratio) and leaves the other three unchanged; when an option is
\* applied several times the last legal value is the one that initialization
\* commits in the Control 1 byte.
C19_OptionSetsItsField ==
    [][ /\ AcceptedODR =>
               /\ odr' = applied'.ODR
               /\ UNCHANGED << rng, osr, mode >>
        /\ AcceptedRNG =>
               /\ rng' = applied'.RNG
               /\ UNCHANGED << odr, osr, mode >>
        /\ AcceptedOSR =>
               /\ osr' = DocOSR[applied'.OSR]
               /\ UNCHANGED << odr, rng, mode >>
        /\ AppliedConfig'
        /\ \A b \in CommittedCtrl1' :
               b = 1 + DocODR[applied'.ODR] + DocRNG[applied'.RNG]
                     + DocOSR[applied'.OSR] ]_vars

\* the last legal values were 200 for ODR and 64 for OSR; initialization
\* committed 0xCD = 0x01 | 0x0C | 0x00 | 0xC0
C19_Witness ==
    /\ applied = [ODR |-> 200, RNG |-> 2, OSR |-> 64]
    /\ osr = 192
    /\ CommittedCtrl1 = {205}
    /\ initErr = NoErr /\ Len(initLog) = 3

\* the lock is free whenever no filtered read is in progress
LockFreeWhenNoRead == (InFlight = {}) => mutex = NoThread

\* a caller waiting for the lock can take it when no filtered read is in
\* progress, whether or not the previous Read failed
NotBlocked ==
    \A t \in Threads :
        (pc[t] = "lock" /\ InFlight = {}) => ENABLED Lock(t)

\* C20: the lock is released on every exit path of Read, the abort on a bus
\* error included, and Heading does not hold it while it calls Read: the
\* lock is free whenever no filtered read is in progress, a call after a
\* failed Read is not blocked, and, when every bus operation returns and the
\* lock is granted fairly, every Read or Heading call of each of the
\* concurrent callers returns, after at most 10 raw reads of its own.
C20_LockAlwaysReleased ==
    /\ [](LockFreeWhenNoRead /\ NotBlocked)
    /\ [](\A t \in Threads : Len(busLog[t]) <= 10)
    /\ [](\A t \in Threads : (Failed(t) \/ Succeeded(t)) => mutex # t)
    /\ \A t \in Threads : (pc[t] = "lock") ~> (pc[t] = "done")

\* the Read of t1 failed at its third raw read and t2 has since taken the
\* lock and read its 10 samples
C20_Witness ==
    /\ Failed("t1")
    /\ Len(busLog["t1"]) = 3
    /\ pc["t2"] = "loop"
    /\ mutex = "t2"
    /\ Len(busLog["t2"]) = 10

====
